---------------------------- MODULE Spec2Model ----------------------------
(***************************************************************************)
(* A model of update_euromillions.py: the record normaliser, the history   *)
(* sort, the current-jackpot banner parser, the retrying fetchers and the  *)
(* main pipeline that writes euromillions.json, latest.json and the page.  *)
(*                                                                         *)
(* Python values are tagged records (field t), text is a sequence of       *)
(* one-character strings, and a float is a decimal num / 10^exp or one of  *)
(* the non-finite values nan and inf.                                      *)
(***************************************************************************)
EXTENDS Integers, Sequences, FiniteSets, TLC

VARIABLES
    pc,             \* position of main (or of the function under test)
    api,            \* what the API endpoint serves on a successful request
    page,           \* what the jackpot page serves: [html, draw] (environment)
    skip_scrape,    \* args.skip_scrape
    basic_iso,      \* does this interpreter's date.fromisoformat accept YYYYMMDD
    retries,        \* fetch_*_with_retry: retries
    backoff_sec,    \* fetch_*_with_retry: backoff_sec
    attempt,        \* fetch_*_with_retry: number of requests made so far
    requests,       \* every request made, in order: <<url, did it succeed>>
    slept,          \* the durations passed to time.sleep, in order
    api_raw,        \* main: api_raw
    history,        \* main: history (normalized, then sorted)
    scraped,        \* main: <<scraped_eur, matched_text>>
    out,            \* main: the files written, by name
    arg,            \* argument of the function under test
    ret             \* its result

vars == <<pc, api, page, skip_scrape, basic_iso, retries, backoff_sec, attempt,
          requests, slept, api_raw, history, scraped, out, arg, ret>>

-----------------------------------------------------------------------------
(* Python values *)

PyNone == [t |-> "none"]
PyBool(b) == [t |-> "bool", b |-> b]
PyInt(n) == [t |-> "int", n |-> n]
\* the finite float num / 10^exp
PyFloat(num, exp) == [t |-> "float", k |-> "fin", num |-> num, exp |-> exp]
PyNaN == [t |-> "float", k |-> "nan"]
PyInf == [t |-> "float", k |-> "inf"]
PyStr(s) == [t |-> "str", s |-> s]
PyList(items) == [t |-> "list", items |-> items]
\* a dict is its items in insertion order, each <<key, value>>
PyDict(kv) == [t |-> "dict", kv |-> kv]
\* an exception propagating out of a call
Raise(exc) == [t |-> "raise", exc |-> exc]

IsNone(v) == v.t = "none"
IsRaise(v) == v.t = "raise"

\* bool(v)
Truthy(v) ==
    CASE v.t = "none" -> FALSE
      [] v.t = "bool" -> v.b
      [] v.t = "int" -> v.n # 0
      [] v.t = "float" -> IF v.k = "fin" THEN v.num # 0 ELSE TRUE
      [] v.t = "str" -> v.s # <<>>
      [] v.t = "list" -> v.items # <<>>
      [] v.t = "dict" -> v.kv # <<>>

\* k in d
HasKey(d, k) == \E i \in 1..Len(d.kv) : d.kv[i][1] = k

\* d.get(k)
Get(d, k) ==
    IF HasKey(d, k)
    THEN d.kv[CHOOSE i \in 1..Len(d.kv) : d.kv[i][1] = k][2]
    ELSE PyNone

\* a or b or c
Or3(a, b, c) == IF Truthy(a) THEN a ELSE IF Truthy(b) THEN b ELSE c

\* a or b
Or2(a, b) == IF Truthy(a) THEN a ELSE b

-----------------------------------------------------------------------------
(* Text *)

Digits == {"0", "1", "2", "3", "4", "5", "6", "7", "8", "9"}

IsDigit(c) == c \in Digits

DigitVal(c) ==
    CASE c = "0" -> 0 [] c = "1" -> 1 [] c = "2" -> 2 [] c = "3" -> 3
      [] c = "4" -> 4 [] c = "5" -> 5 [] c = "6" -> 6 [] c = "7" -> 7
      [] c = "8" -> 8 [] c = "9" -> 9

RECURSIVE NatOf(_)
\* the number a run of digits denotes
NatOf(s) ==
    IF s = <<>> THEN 0
    ELSE 10 * NatOf(SubSeq(s, 1, Len(s) - 1)) + DigitVal(s[Len(s)])

RECURSIVE Pow10(_)
Pow10(e) == IF e = 0 THEN 1 ELSE 10 * Pow10(e - 1)

AllDigits(s) == \A i \in 1..Len(s) : IsDigit(s[i])

\* the last index of the run of digits that starts at i (i - 1 if s[i] is none)
RunEnd(s, i) ==
    IF \E j \in i..Len(s) : ~IsDigit(s[j])
    THEN (CHOOSE j \in i..Len(s) :
            ~IsDigit(s[j]) /\ \A k \in i..(j - 1) : IsDigit(s[k])) - 1
    ELSE Len(s)

\* s.replace(c, "")
RECURSIVE Without(_, _)
Without(s, c) ==
    IF s = <<>> THEN <<>>
    ELSE IF Head(s) = c THEN Without(Tail(s), c)
    ELSE <<Head(s)>> \o Without(Tail(s), c)

\* what \s matches, among the characters the texts of the model use
Whitespace == {" ", "\n", "\t"}

\* s.strip()
RECURSIVE Strip(_)
Strip(s) ==
    IF s = <<>> THEN s
    ELSE IF Head(s) \in Whitespace THEN Strip(Tail(s))
    ELSE IF s[Len(s)] \in Whitespace THEN Strip(SubSeq(s, 1, Len(s) - 1))
    ELSE s

\* round(): num / den to the nearest integer, a half to the even neighbour
RoundHalfEven(num, den) ==
    LET q == num \div den
        r == num % den
    IN  IF 2 * r < den THEN q
        ELSE IF 2 * r > den THEN q + 1
        ELSE IF q % 2 = 0 THEN q ELSE q + 1

-----------------------------------------------------------------------------
(* Coercions *)

\* the first match of \d+(?:[.,]\d+)? in s, as <<integer digits, fraction digits>>;
\* <<>> when s holds no digit
FirstAmount(s) ==
    IF \A i \in 1..Len(s) : ~IsDigit(s[i]) THEN <<>>
    ELSE LET i == CHOOSE p \in 1..Len(s) :
                    IsDigit(s[p]) /\ \A q \in 1..(p - 1) : ~IsDigit(s[q])
             j == RunEnd(s, i)
             frac == IF /\ j + 2 <= Len(s)
                        /\ s[j + 1] \in {".", ","}
                        /\ IsDigit(s[j + 2])
                     THEN SubSeq(s, j + 2, RunEnd(s, j + 2))
                     ELSE <<>>
         IN  <<SubSeq(s, i, j), frac>>

\* int(round(val)) for a float val: round() raises on nan and inf
RoundFloat(v) ==
    IF v.k # "fin" THEN Raise(IF v.k = "nan" THEN "ValueError" ELSE "OverflowError")
    ELSE IF v.num >= 0 THEN PyInt(RoundHalfEven(v.num, Pow10(v.exp)))
    ELSE PyInt(0 - RoundHalfEven(0 - v.num, Pow10(v.exp)))

\* _parse_euro_to_int(val): an int, None, or the exception round() raises
_parse_euro_to_int(val) ==
    CASE val.t = "none" -> PyNone
      [] val.t = "int" -> PyInt(val.n)
      [] val.t = "float" -> RoundFloat(val)
      [] val.t = "str" ->
            LET m == FirstAmount(Without(val.s, ","))
            IN  IF m = <<>> THEN PyNone
                ELSE PyInt(RoundHalfEven(
                        NatOf(m[1]) * Pow10(Len(m[2])) + NatOf(m[2]),
                        Pow10(Len(m[2]))))
      [] OTHER -> PyNone

\* is s (already stripped) an integer literal: an optional sign, then digits
IsIntLiteral(s) ==
    /\ s # <<>>
    /\ LET d == IF Head(s) \in {"+", "-"} THEN Tail(s) ELSE s
       IN  d # <<>> /\ AllDigits(d)

IntLiteralVal(s) ==
    IF Head(s) = "-" THEN 0 - NatOf(Tail(s))
    ELSE IF Head(s) = "+" THEN NatOf(Tail(s))
    ELSE NatOf(s)

\* is s (already stripped) a decimal float literal: sign, digits, at most one point
IsFloatLiteral(s) ==
    /\ s # <<>>
    /\ LET d == IF Head(s) \in {"+", "-"} THEN Tail(s) ELSE s
           n == Without(d, ".")
       IN  /\ n # <<>>
           /\ AllDigits(n)
           /\ Len(d) - Len(n) <= 1

\* int(float(s)) of a float literal: the integer part, toward zero
FloatLiteralTrunc(s) ==
    LET d == IF Head(s) \in {"+", "-"} THEN Tail(s) ELSE s
        n == NatOf(SubSeq(d, 1, RunEnd(d, 1)))
    IN  IF Head(s) = "-" THEN 0 - n ELSE n

\* int(x) of a float: toward zero; raises on nan and inf
TruncFloat(v) ==
    IF v.k # "fin" THEN PyNone
    ELSE IF v.num >= 0 THEN PyInt(v.num \div Pow10(v.exp))
    ELSE PyInt(0 - ((0 - v.num) \div Pow10(v.exp)))

\* int(x), None standing for the exception it raises
int(x) ==
    CASE x.t = "int" -> PyInt(x.n)
      [] x.t = "bool" -> PyInt(IF x.b THEN 1 ELSE 0)
      [] x.t = "float" -> TruncFloat(x)
      [] x.t = "str" ->
            IF IsIntLiteral(Strip(x.s)) THEN PyInt(IntLiteralVal(Strip(x.s)))
            ELSE PyNone
      [] OTHER -> PyNone

\* int(str(x).strip()): str() of None, of a float, of a list or of a dict is no
\* integer literal, and str() of a str is the str itself
int_of_str(x) ==
    CASE x.t = "str" ->
            IF IsIntLiteral(Strip(x.s)) THEN PyInt(IntLiteralVal(Strip(x.s)))
            ELSE PyNone
      [] x.t = "int" -> PyInt(x.n)
      [] OTHER -> PyNone

\* re.findall(r"\d{1,2}", s), each match converted by int()
RECURSIVE FindAll12(_)
FindAll12(s) ==
    IF s = <<>> THEN <<>>
    ELSE IF ~IsDigit(s[1]) THEN FindAll12(Tail(s))
    ELSE IF Len(s) >= 2 /\ IsDigit(s[2])
         THEN <<NatOf(SubSeq(s, 1, 2))>> \o FindAll12(SubSeq(s, 3, Len(s)))
    ELSE <<NatOf(SubSeq(s, 1, 1))>> \o FindAll12(Tail(s))

\* the loop of _as_numbers_list over a list: out.append(int(x)), else
\* out.append(int(str(x).strip())), else nothing
RECURSIVE AppendInts(_)
AppendInts(items) ==
    IF items = <<>> THEN <<>>
    ELSE LET a == int(Head(items))
             b == int_of_str(Head(items))
         IN  (IF ~IsNone(a) THEN <<a.n>>
              ELSE IF ~IsNone(b) THEN <<b.n>>
              ELSE <<>>) \o AppendInts(Tail(items))

\* _as_numbers_list(v): a sequence of integers
_as_numbers_list(v) ==
    CASE v.t = "list" -> AppendInts(v.items)
      [] v.t = "str" -> FindAll12(v.s)
      [] OTHER -> <<>>

\* _to_int_maybe(x): int(x), else int(float(x)), else None
_to_int_maybe(x) ==
    IF ~IsNone(int(x)) THEN int(x)
    ELSE IF x.t = "str" /\ IsFloatLiteral(Strip(x.s))
         THEN PyInt(FloatLiteralTrunc(Strip(x.s)))
    ELSE PyNone

-----------------------------------------------------------------------------
(* The jackpot of an API record *)

\* t.get("prize") or t.get("amount") or t.get("jackpot"), parsed
TierPrize(t) ==
    _parse_euro_to_int(Or3(Get(t, "prize"), Get(t, "amount"), Get(t, "jackpot")))

\* the test that makes recurse() append a dict to tiers
IsTier(o) ==
    /\ \E k \in {"prize", "amount", "jackpot"} : HasKey(o, k)
    /\ HasKey(o, "matched_numbers") \/ HasKey(o, "matched_stars")

RECURSIVE recurse(_)
RECURSIVE RecurseAll(_)
\* recurse(o): the tiers it appends, in the order it appends them
recurse(o) ==
    CASE o.t = "dict" ->
            (IF IsTier(o) THEN <<o>> ELSE <<>>)
                \o RecurseAll([i \in 1..Len(o.kv) |-> o.kv[i][2]])
      [] o.t = "list" -> RecurseAll(o.items)
      [] OTHER -> <<>>

RecurseAll(vs) ==
    IF vs = <<>> THEN <<>> ELSE recurse(Head(vs)) \o RecurseAll(Tail(vs))

\* mn == 5 and ms == 2
IsTopTier(t) ==
    LET mn == _to_int_maybe(Get(t, "matched_numbers"))
        ms == _to_int_maybe(Get(t, "matched_stars"))
    IN  mn = PyInt(5) /\ ms = PyInt(2)

\* the first loop over tiers: the prize of the first 5+2 tier whose prize parses
RECURSIVE TopTierPrize(_)
TopTierPrize(tiers) ==
    IF tiers = <<>> THEN PyNone
    ELSE IF IsTopTier(Head(tiers)) /\ ~IsNone(TierPrize(Head(tiers)))
         THEN TierPrize(Head(tiers))
    ELSE TopTierPrize(Tail(tiers))

\* the second loop over tiers: the highest parsed prize, starting from best
RECURSIVE BestPrize(_, _)
BestPrize(tiers, best) ==
    IF tiers = <<>> THEN best
    ELSE LET p == TierPrize(Head(tiers))
         IN  IF IsRaise(p) THEN p
             ELSE IF ~IsNone(p) /\ (IsNone(best) \/ p.n > best.n)
                  THEN BestPrize(Tail(tiers), p)
             ELSE BestPrize(Tail(tiers), best)

\* _extract_jackpot_from_tiers(raw)
_extract_jackpot_from_tiers(raw) ==
    LET tiers == recurse(raw)
        top == TopTierPrize(tiers)
    IN  IF ~IsNone(top) THEN top ELSE BestPrize(tiers, PyNone)

\* the loop of extract_jackpot_eur over the top-level keys ks
RECURSIVE TopLevelJackpot(_, _)
TopLevelJackpot(raw, ks) ==
    IF ks = <<>> THEN PyNone
    ELSE LET j == _parse_euro_to_int(Get(raw, Head(ks)))
         IN  IF ~IsNone(j) THEN j ELSE TopLevelJackpot(raw, Tail(ks))

\* extract_jackpot_eur(raw)
extract_jackpot_eur(raw) ==
    LET j == TopLevelJackpot(raw, <<"jackpot", "prize", "jackpot_eur">>)
    IN  IF ~IsNone(j) THEN j ELSE _extract_jackpot_from_tiers(raw)

-----------------------------------------------------------------------------
(* Dates *)

Unknown == <<"u", "n", "k", "n", "o", "w", "n">>

\* re.match(r"^(\d{4})-(\d{2})-(\d{2})", s)
HasDatePrefix(s) ==
    /\ Len(s) >= 10
    /\ \A i \in {1, 2, 3, 4, 6, 7, 9, 10} : IsDigit(s[i])
    /\ s[5] = "-" /\ s[8] = "-"

IsLeap(y) == (y % 4 = 0 /\ y % 100 # 0) \/ y % 400 = 0

DaysInMonth(y, m) ==
    IF m = 2 THEN (IF IsLeap(y) THEN 29 ELSE 28)
    ELSE IF m \in {4, 6, 9, 11} THEN 30 ELSE 31

\* date(y, m, d) is a date and raises nothing
IsDate(y, m, d) ==
    /\ y >= 1
    /\ m \in 1..12
    /\ d >= 1 /\ d <= DaysInMonth(y, m)

\* the times that may follow the date in the texts of the model
IsoTimes ==
    { <<>>,
      <<"T", "1", "0", ":", "0", "0", ":", "0", "0">>,
      <<"T", "1", "0", ":", "0", "0", ":", "0", "0", "+", "0", "0", ":", "0", "0">> }

\* s.replace("Z", "+00:00")
RECURSIVE ReplaceZ(_)
ReplaceZ(s) ==
    IF s = <<>> THEN <<>>
    ELSE IF Head(s) = "Z" THEN <<"+", "0", "0", ":", "0", "0">> \o ReplaceZ(Tail(s))
    ELSE <<Head(s)>> \o ReplaceZ(Tail(s))

\* datetime.fromisoformat(s).date().isoformat(); <<>> when it raises.  The
\* extended form YYYY-MM-DD is accepted by every interpreter, the basic form
\* YYYYMMDD only by those with basic_iso.
fromisoformat(s) ==
    IF /\ HasDatePrefix(s)
       /\ IsDate(NatOf(SubSeq(s, 1, 4)), NatOf(SubSeq(s, 6, 7)), NatOf(SubSeq(s, 9, 10)))
       /\ SubSeq(s, 11, Len(s)) \in IsoTimes
    THEN SubSeq(s, 1, 10)
    ELSE IF /\ basic_iso
            /\ Len(s) >= 8
            /\ AllDigits(SubSeq(s, 1, 8))
            /\ IsDate(NatOf(SubSeq(s, 1, 4)), NatOf(SubSeq(s, 5, 6)), NatOf(SubSeq(s, 7, 8)))
            /\ SubSeq(s, 9, Len(s)) \in IsoTimes
         THEN SubSeq(s, 1, 4) \o <<"-">> \o SubSeq(s, 5, 6) \o <<"-">> \o SubSeq(s, 7, 8)
    ELSE <<>>

DigitChar(d) ==
    CASE d = 0 -> "0" [] d = 1 -> "1" [] d = 2 -> "2" [] d = 3 -> "3"
      [] d = 4 -> "4" [] d = 5 -> "5" [] d = 6 -> "6" [] d = 7 -> "7"
      [] d = 8 -> "8" [] d = 9 -> "9"

RECURSIVE NatStr(_)
NatStr(n) == IF n < 10 THEN <<DigitChar(n)>> ELSE NatStr(n \div 10) \o <<DigitChar(n % 10)>>

\* str(v) of a value that is not a str
str(v) ==
    CASE v.t = "int" -> IF v.n < 0 THEN <<"-">> \o NatStr(0 - v.n) ELSE NatStr(v.n)
      [] v.t = "bool" -> IF v.b THEN <<"T", "r", "u", "e">> ELSE <<"F", "a", "l", "s", "e">>
      [] v.t = "list" -> IF v.items = <<>> THEN <<"[", "]">> ELSE <<"[", ".", ".", ".", "]">>
      [] v.t = "dict" -> IF v.kv = <<>> THEN <<"{", "}">> ELSE <<"{", ".", ".", ".", "}">>
      [] v.t = "float" ->
            IF v.k = "nan" THEN <<"n", "a", "n">>
            ELSE IF v.k = "inf" THEN <<"i", "n", "f">>
            ELSE NatStr(v.num \div Pow10(v.exp)) \o <<".">>
                    \o (IF v.exp = 0 THEN <<"0">>
                        ELSE SubSeq(NatStr(Pow10(v.exp) + (v.num % Pow10(v.exp))),
                                    2, v.exp + 1))
      [] v.t = "none" -> <<"N", "o", "n", "e">>

\* the date of normalize_draw: date_iso or "unknown"
DateIso(date_val) ==
    LET date_iso ==
            IF date_val.t = "str"
            THEN IF HasDatePrefix(date_val.s) THEN SubSeq(date_val.s, 1, 10)
                 ELSE IF fromisoformat(ReplaceZ(date_val.s)) # <<>>
                      THEN fromisoformat(ReplaceZ(date_val.s))
                 ELSE date_val.s
            ELSE IF ~IsNone(date_val) THEN str(date_val)
            ELSE <<>>
    IN  IF date_iso # <<>> THEN date_iso ELSE Unknown

\* Take gone wrong: the slice forgotten
KeepAll(s, n) == s

\* numbers[:n]
Take(s, n) == SubSeq(s, 1, IF Len(s) < n THEN Len(s) ELSE n)

\* normalize_draw(raw): the Draw, or the exception that leaves the call
normalize_draw(raw) ==
    IF raw.t # "dict" THEN Raise("AttributeError")
    ELSE LET date_val == Or3(Get(raw, "date"), Get(raw, "draw_date"), Get(raw, "drawDate"))
             numbers == _as_numbers_list(Or2(Get(raw, "numbers"), Get(raw, "numbers_main")))
             stars == _as_numbers_list(Or2(Get(raw, "stars"), Get(raw, "lucky_stars")))
             jackpot_eur == extract_jackpot_eur(raw)
         IN  IF IsRaise(jackpot_eur) THEN jackpot_eur
             ELSE [t |-> "draw",
                   id |-> Or3(Get(raw, "id"), Get(raw, "draw_id"), Get(raw, "drawId")),
                   date |-> DateIso(date_val),
                   numbers |-> Take(numbers, 5),
                   stars |-> Take(stars, 2),
                   jackpot_eur |-> jackpot_eur,
                   raw |-> raw]

-----------------------------------------------------------------------------
(* The history *)

\* key_fn(d) of sort_desc_by_date; $ also matches before a final newline
key_fn(d) ==
    LET s == d.date
    IN  IF /\ HasDatePrefix(s)
           /\ Len(s) = 10 \/ (Len(s) = 11 /\ s[11] = "\n")
        THEN <<NatOf(SubSeq(s, 1, 4)), NatOf(SubSeq(s, 6, 7)), NatOf(SubSeq(s, 9, 10))>>
        ELSE <<0, 0, 0>>

\* a < b for two keys
KeyLess(a, b) ==
    \/ a[1] < b[1]
    \/ a[1] = b[1] /\ a[2] < b[2]
    \/ a[1] = b[1] /\ a[2] = b[2] /\ a[3] < b[3]

\* InsertDesc gone wrong: d placed before the elements of its own key, as a
\* sort in ascending order that is then reversed would place it
InsertBeforeEqual(s, d) ==
    LET n == Cardinality({i \in 1..Len(s) : KeyLess(key_fn(d), key_fn(s[i]))})
    IN  SubSeq(s, 1, n) \o <<d>> \o SubSeq(s, n + 1, Len(s))

\* d placed in the sorted list s after every element whose key is not less
\* than its own: what a stable sort with reverse=True does with equal keys
InsertDesc(s, d) ==
    LET n == Cardinality({i \in 1..Len(s) : ~KeyLess(key_fn(s[i]), key_fn(d))})
    IN  SubSeq(s, 1, n) \o <<d>> \o SubSeq(s, n + 1, Len(s))

RECURSIVE sort_desc_by_date(_)
\* sorted(draws, key=key_fn, reverse=True)
sort_desc_by_date(draws) ==
    IF draws = <<>> THEN <<>>
    ELSE InsertDesc(sort_desc_by_date(SubSeq(draws, 1, Len(draws) - 1)),
                    draws[Len(draws)])

-----------------------------------------------------------------------------
(* The current-jackpot banner *)

JackpotFloor == 1000000

Upper == <<"A", "B", "C", "D", "E", "F", "G", "H", "I", "J", "K", "L", "M",
           "N", "O", "P", "Q", "R", "S", "T", "U", "V", "W", "X", "Y", "Z">>
Lower == <<"a", "b", "c", "d", "e", "f", "g", "h", "i", "j", "k", "l", "m",
           "n", "o", "p", "q", "r", "s", "t", "u", "v", "w", "x", "y", "z">>

\* c.lower()
LowerChar(c) ==
    IF \E i \in 1..26 : Upper[i] = c
    THEN Lower[CHOOSE i \in 1..26 : Upper[i] = c]
    ELSE c

\* s.lower()
LowerStr(s) == [i \in 1..Len(s) |-> LowerChar(s[i])]

RECURSIVE SkipWs(_, _)
\* the index after the whitespace \s* takes at i
SkipWs(s, i) == IF i <= Len(s) /\ s[i] \in Whitespace THEN SkipWs(s, i + 1) ELSE i

RECURSIVE CollapseWs(_)
\* re.sub(r"\s+", " ", s)
CollapseWs(s) ==
    IF s = <<>> THEN <<>>
    ELSE IF Head(s) \in Whitespace
         THEN <<" ">> \o CollapseWs(SubSeq(s, SkipWs(s, 1), Len(s)))
    ELSE <<Head(s)>> \o CollapseWs(Tail(s))

\* word w (lower case) stands at i of s, whatever the case
WordAt(s, i, w) ==
    /\ i + Len(w) - 1 <= Len(s)
    /\ \A k \in 1..Len(w) : LowerChar(s[i + k - 1]) = w[k]

Jackpot == <<"j", "a", "c", "k", "p", "o", "t">>
Million == <<"m", "i", "l", "l", "i", "o", "n">>
Billion == <<"b", "i", "l", "l", "i", "o", "n">>
Thousand == <<"t", "h", "o", "u", "s", "a", "n", "d">>

\* the alternation (Million|Billion|Thousand|M|B|K), in its order
Units == <<Million, Billion, Thousand, <<"m">>, <<"b">>, <<"k">>>>

\* the last index of the run of [\d.,] that starts at i
RECURSIVE NumRunEnd(_, _)
NumRunEnd(s, i) ==
    IF i <= Len(s) /\ (IsDigit(s[i]) \/ s[i] \in {".", ","})
    THEN NumRunEnd(s, i + 1) ELSE i - 1

\* the end of Jackpot(?:\s*\*)? when Jackpot ends at j
StarEnd(s, j) == IF SkipWs(s, j + 1) <= Len(s) /\ s[SkipWs(s, j + 1)] = "*"
                 THEN SkipWs(s, j + 1) ELSE j

NoMatch == [ok |-> FALSE]

\* pattern 1 tried at index i:
\*   €\s*([\d]+(?:[.,]\d+)?)\s*(Million|Billion|Thousand|M|B|K)\s*Jackpot(?:\s*\*)?
Match1(s, i) ==
    LET a == SkipWs(s, i + 1)
        e1 == RunEnd(s, a)
        e2 == IF e1 + 2 <= Len(s) /\ s[e1 + 1] \in {".", ","} /\ IsDigit(s[e1 + 2])
              THEN RunEnd(s, e1 + 2) ELSE e1
        b == SkipWs(s, e2 + 1)
        fits(u) == WordAt(s, b, u) /\ WordAt(s, SkipWs(s, b + Len(u)), Jackpot)
    IN  IF /\ s[i] = "€"
           /\ a <= Len(s) /\ IsDigit(s[a])
           /\ \E n \in 1..Len(Units) : fits(Units[n])
        THEN LET n == CHOOSE n \in 1..Len(Units) :
                        fits(Units[n]) /\ \A k \in 1..(n - 1) : ~fits(Units[k])
                 j == SkipWs(s, b + Len(Units[n])) + Len(Jackpot) - 1
             IN  [ok |-> TRUE, num |-> SubSeq(s, a, e2),
                  unit |-> PyStr(SubSeq(s, b, b + Len(Units[n]) - 1)),
                  text |-> SubSeq(s, i, StarEnd(s, j))]
        ELSE NoMatch

\* pattern 2 tried at index i:  €\s*([\d][\d.,]*)\s*Jackpot(?:\s*\*)?
Match2(s, i) ==
    LET a == SkipWs(s, i + 1)
        e == NumRunEnd(s, a)
        b == SkipWs(s, e + 1)
    IN  IF /\ s[i] = "€"
           /\ a <= Len(s) /\ IsDigit(s[a])
           /\ WordAt(s, b, Jackpot)
        THEN [ok |-> TRUE, num |-> SubSeq(s, a, e), unit |-> PyNone,
              text |-> SubSeq(s, i, StarEnd(s, b + Len(Jackpot) - 1))]
        ELSE NoMatch

\* pattern 3 tried at index i:  Jackpot\s*€\s*([\d][\d.,]*)
Match3(s, i) ==
    LET a == SkipWs(s, i + Len(Jackpot))
        b == SkipWs(s, a + 1)
    IN  IF /\ WordAt(s, i, Jackpot)
           /\ a <= Len(s) /\ s[a] = "€"
           /\ b <= Len(s) /\ IsDigit(s[b])
        THEN [ok |-> TRUE, num |-> SubSeq(s, b, NumRunEnd(s, b)), unit |-> PyNone,
              text |-> SubSeq(s, i, NumRunEnd(s, b))]
        ELSE NoMatch

MatchAt(pat, s, i) ==
    CASE pat = 1 -> Match1(s, i) [] pat = 2 -> Match2(s, i) [] pat = 3 -> Match3(s, i)

\* re.search(patterns[pat], s, flags=re.IGNORECASE): the leftmost match
Search(pat, s) ==
    IF \E i \in 1..Len(s) : MatchAt(pat, s, i).ok
    THEN MatchAt(pat, s, CHOOSE i \in 1..Len(s) :
                    MatchAt(pat, s, i).ok /\ \A k \in 1..(i - 1) : ~MatchAt(pat, s, k).ok)
    ELSE NoMatch

\* _multiplier_for_unit(unit)
_multiplier_for_unit(unit) ==
    IF ~Truthy(unit) THEN 1
    ELSE LET u == LowerStr(Strip(unit.s))
         IN  IF u \in {Million, <<"m">>} THEN 1000000
             ELSE IF u \in {Billion, <<"b">>} THEN 1000000000
             ELSE IF u \in {Thousand, <<"k">>} THEN 1000
             ELSE 1

\* float(raw_num.replace(",", "")) raises nothing: at most one point
IsFloatText(num) == Len(Without(num, ",")) - Len(Without(Without(num, ","), ".")) <= 1

\* int(round(float(raw_num.replace(",", "")) * mult))
Euros(num, mult) ==
    LET txt == Without(num, ",")
        whole == SubSeq(txt, 1, RunEnd(txt, 1))
        frac == SubSeq(txt, Len(whole) + 2, Len(txt))
        n == NatOf(whole \o frac)
        den == Pow10(Len(frac))
    IN  IF mult % den = 0 THEN n * (mult \div den)
        ELSE RoundHalfEven(n, den \div mult)

\* TryPatterns gone wrong: (None, None) returned as soon as a pattern matches
\* an amount under the floor
RECURSIVE StopAtFirstMatch(_, _)
StopAtFirstMatch(pat, text) ==
    IF pat > 3 THEN <<PyNone, PyNone>>
    ELSE LET m == Search(pat, text)
         IN  IF ~m.ok \/ ~IsFloatText(m.num) THEN StopAtFirstMatch(pat + 1, text)
             ELSE IF Euros(m.num, _multiplier_for_unit(m.unit)) >= JackpotFloor
             THEN <<PyInt(Euros(m.num, _multiplier_for_unit(m.unit))), PyStr(Strip(m.text))>>
             ELSE <<PyNone, PyNone>>

\* the body of the loop of parse_current_jackpot_from_html for patterns
\* pat..3: the first one whose match gives an amount of at least the floor
RECURSIVE TryPatterns(_, _)
TryPatterns(pat, text) ==
    IF pat > 3 THEN <<PyNone, PyNone>>
    ELSE LET m == Search(pat, text)
         IN  IF /\ m.ok
                /\ IsFloatText(m.num)
                /\ Euros(m.num, _multiplier_for_unit(m.unit)) >= JackpotFloor
             THEN <<PyInt(Euros(m.num, _multiplier_for_unit(m.unit))), PyStr(Strip(m.text))>>
             ELSE TryPatterns(pat + 1, text)

\* parse_current_jackpot_from_html(html_text)
parse_current_jackpot_from_html(html_text) == TryPatterns(1, CollapseWs(html_text))

-----------------------------------------------------------------------------
(* fetch_json_with_retry and fetch_text_with_retry *)

Unset == [t |-> "unset"]

\* the positions inside the two fetchers: called on their own, or by main
\* (line 413) and by scrape_current_jackpot (line 279)
JsonPcs == {"fetch_json", "main:fetch_json"}
TextPcs == {"fetch_text", "main:fetch_text"}

\* the URL a fetcher requests
UrlOf(p) == IF p \in JsonPcs THEN "api" ELSE "page"

\* where control goes when the fetcher returns
AfterReturn(p) ==
    CASE p = "main:fetch_json" -> "main:check"
      [] p = "main:fetch_text" -> "main:write_json"
      [] OTHER -> "returned"

\* AfterRaise gone wrong: the scrape not wrapped in try / except
AfterRaiseUncaught(p) ==
    CASE p \in {"main:fetch_json", "main:fetch_text"} -> "main:aborted"
      [] OTHER -> "raised"

\* where control goes when the fetcher raises RuntimeError: main lets the one
\* of the API fetch through, and catches the one of the scrape (lines 426-430)
AfterRaise(p) ==
    CASE p = "main:fetch_json" -> "main:aborted"
      [] p = "main:fetch_text" -> "main:write_json"
      [] OTHER -> "raised"

\* SleepsAfter gone wrong: a sleep after the last failure too
SleepsAfterEvery(n) == n <= retries

\* does the loop sleep after the failure of request number n
SleepsAfter(n) == n < retries

\* one pass of the loop body: a request that succeeds (the fetcher returns
\* r.json() or r.text) or fails (the fetcher sleeps if attempts remain)
Request ==
    /\ pc \in JsonPcs \cup TextPcs
    /\ attempt < retries
    /\ \E ok \in BOOLEAN :
        /\ attempt' = attempt + 1
        /\ requests' = Append(requests, <<UrlOf(pc), ok>>)
        /\ slept' = IF ~ok /\ SleepsAfter(attempt + 1)
                    THEN Append(slept, backoff_sec * (attempt + 1))
                    ELSE slept
        /\ pc' = IF ok THEN AfterReturn(pc) ELSE pc
        /\ api_raw' = IF ok /\ pc = "main:fetch_json" THEN api ELSE api_raw
        /\ scraped' = IF ok /\ pc = "main:fetch_text"
                      THEN parse_current_jackpot_from_html(page.html)
                      ELSE scraped
        /\ ret' = IF ok /\ pc \notin {"main:fetch_json", "main:fetch_text"}
                  THEN (IF pc \in JsonPcs THEN api ELSE PyStr(page.html))
                  ELSE ret
    /\ UNCHANGED <<api, page, skip_scrape, basic_iso, retries, backoff_sec,
                   history, out, arg>>

\* the loop is over: raise RuntimeError
Exhausted ==
    /\ pc \in JsonPcs \cup TextPcs
    /\ attempt >= retries
    /\ pc' = AfterRaise(pc)
    /\ scraped' = IF pc = "main:fetch_text" THEN <<PyNone, PyNone>> ELSE scraped
    /\ ret' = IF pc = "main:fetch_text" THEN ret ELSE Raise("RuntimeError")
    /\ UNCHANGED <<api, page, skip_scrape, basic_iso, retries, backoff_sec, attempt,
                   requests, slept, api_raw, history, out, arg>>

-----------------------------------------------------------------------------
(* main *)

\* IsNonEmptyList gone wrong: the test for emptiness forgotten
IsList(v) == v.t = "list"

\* not (not isinstance(api_raw, list) or not api_raw)
IsNonEmptyList(v) == v.t = "list" /\ v.items # <<>>

\* line 414: the payload is checked before anything is made of it
CheckPayload ==
    /\ pc = "main:check"
    /\ IF IsNonEmptyList(api_raw)
       THEN pc' = "main:normalize" /\ ret' = ret
       ELSE pc' = "main:aborted" /\ ret' = Raise("RuntimeError")
    /\ UNCHANGED <<api, page, skip_scrape, basic_iso, retries, backoff_sec, attempt,
                   requests, slept, api_raw, history, scraped, out, arg>>

\* [normalize_draw(d) for d in api_raw]
Normalized(items) == [i \in 1..Len(items) |-> normalize_draw(items[i])]

\* lines 417-420: normalize every record, sort, take the head
Normalize ==
    /\ pc = "main:normalize"
    /\ LET items == IF api_raw.t = "list" THEN api_raw.items ELSE <<>>
           normalized == Normalized(items)
       IN  IF \E i \in 1..Len(items) : IsRaise(normalized[i])
           THEN /\ pc' = "main:aborted"
                /\ ret' = normalized[CHOOSE i \in 1..Len(items) :
                            /\ IsRaise(normalized[i])
                            /\ \A k \in 1..(i - 1) : ~IsRaise(normalized[k])]
                /\ history' = history
           ELSE IF items = <<>>
           THEN /\ pc' = "main:aborted"
                /\ ret' = Raise("IndexError")
                /\ history' = <<>>
           ELSE /\ pc' = "main:scrape"
                /\ ret' = ret
                /\ history' = sort_desc_by_date(normalized)
    /\ UNCHANGED <<api, page, skip_scrape, basic_iso, retries, backoff_sec, attempt,
                   requests, slept, api_raw, scraped, out, arg>>

\* lines 423-427: scrape unless told not to; scrape_current_jackpot calls
\* fetch_text_with_retry(url, retries=3, backoff_sec=2.0)
StartScrape ==
    /\ pc = "main:scrape"
    /\ scraped' = <<PyNone, PyNone>>
    /\ IF skip_scrape
       THEN pc' = "main:write_json" /\ UNCHANGED <<retries, backoff_sec, attempt, slept>>
       ELSE /\ pc' = "main:fetch_text"
            /\ retries' = 3
            /\ backoff_sec' = 2
            /\ attempt' = 0
            /\ slept' = <<>>
    /\ UNCHANGED <<api, page, skip_scrape, basic_iso, requests, api_raw, history,
                   out, arg, ret>>

latest == history[1]

\* line 433
current_jackpot == IF ~IsNone(scraped[1]) THEN scraped[1] ELSE latest.jackpot_eur

\* line 434
current_src == IF ~IsNone(scraped[1]) THEN "lottery.ie" ELSE "api"

\* lines 438-454: euromillions.json
WriteEuromillions ==
    /\ pc = "main:write_json"
    /\ out' = Append(out,
            [file |-> "euromillions.json",
             currentJackpotEUR |-> current_jackpot,
             lastDraw |-> latest,
             history |-> history,
             currentJackpotSource |-> current_src,
             currentJackpotText |-> IF Truthy(scraped[2]) THEN scraped[2] ELSE Unset])
    /\ pc' = "main:write_latest"
    /\ UNCHANGED <<api, page, skip_scrape, basic_iso, retries, backoff_sec, attempt,
                   requests, slept, api_raw, history, scraped, arg, ret>>

\* lines 456-470: latest.json
WriteLatest ==
    /\ pc = "main:write_latest"
    /\ out' = Append(out,
            [file |-> "latest.json",
             date |-> latest.date,
             jackpot_eur |-> latest.jackpot_eur,
             current_jackpot_eur |-> current_jackpot,
             numbers |-> latest.numbers,
             stars |-> latest.stars,
             verified |-> TRUE])
    /\ pc' = "main:render"
    /\ UNCHANGED <<api, page, skip_scrape, basic_iso, retries, backoff_sec, attempt,
                   requests, slept, api_raw, history, scraped, arg, ret>>

\* lines 473-489: render_html, then return 0
RenderHtml ==
    /\ pc = "main:render"
    /\ out' = Append(out,
            [file |-> "index.html",
             latest |-> latest,
             hist_count |-> Len(history),
             currentJackpotEUR |-> current_jackpot,
             jackpot_note |-> IF current_src = "lottery.ie"
                              THEN "source: lottery.ie" ELSE "source: API"])
    /\ pc' = "main:done"
    /\ ret' = PyInt(0)
    /\ UNCHANGED <<api, page, skip_scrape, basic_iso, retries, backoff_sec, attempt,
                   requests, slept, api_raw, history, scraped, arg>>

-----------------------------------------------------------------------------
(* The inputs the functions are applied to *)

MaxItems == 6       \* longest numbers / stars list of a record
MaxTiers == 2       \* most prize tiers of a record
MaxDraws == 3       \* longest list handed to sort_desc_by_date
MaxRecords == 2     \* longest API payload
MaxRetries == 4     \* largest retries of a fetcher called on its own
MaxBackoff == 2     \* largest backoff_sec of a fetcher called on its own

\* the sequences over S of length at most n
SeqsUpTo(S, n) == UNION {[1..k -> S] : k \in 0..n}

\* texts of the shape YYYY-MM-DD, some of them no calendar date, with and
\* without a time after them
IsoLikeDates ==
    { y \o <<"-">> \o m \o <<"-">> \o d \o x :
        y \in {<<"2", "0", "2", "5">>, <<"2", "0", "2", "4">>},
        m \in {<<"0", "2">>, <<"0", "4">>, <<"1", "3">>},
        d \in {<<"2", "9">>, <<"3", "0">>, <<"3", "1">>},
        x \in {<<>>, <<"T", "1", "0", ":", "0", "0", ":", "0", "0", "Z">>} }

OtherDates ==
    { <<>>, <<"2", "6", "/", "0", "8", "/", "2", "0", "2", "5">>, <<"2", "0", "2", "5", "0", "8", "2", "6">>, <<"2", "0", "2", "5", "0", "2", "3", "0">>, <<"2", "0", "2", "5", "0", "8", "2", "6", "T", "1", "0", ":", "0", "0", ":", "0", "0", "Z">>, <<" ", "2", "0", "2", "5", "-", "0", "8", "-", "2", "6">>, <<"2", "0", "2", "5", "-", "8", "-", "2", "6">>, <<"l", "a", "s", "t", " ", "T", "u", "e", "s", "d", "a", "y">> }

DateVals ==
    {PyStr(x) : x \in IsoLikeDates \cup OtherDates}
        \cup {PyInt(20250826), PyInt(0), PyNone, PyList(<<>>)}

SomeNumbers == PyList(<<PyInt(3), PyInt(17), PyInt(22), PyInt(29), PyInt(44)>>)
SomeStars == PyList(<<PyInt(6), PyInt(9)>>)

\* a record whose date v stands under key k
DateRecord(k, v, id) ==
    PyDict(<<<<"id", id>>, <<k, v>>, <<"numbers", SomeNumbers>>, <<"stars", SomeStars>>>>)

DateRecords ==
    {DateRecord(k, v, PyInt(1)) : k \in {"date", "draw_date", "drawDate"}, v \in DateVals}
        \cup { PyDict(<<<<"date", v>>, <<"draw_date", PyStr(<<"2", "0", "2", "5", "-", "0", "8", "-", "2", "6">>)>>>>) :
                v \in {PyStr(<<>>), PyNone, PyStr(<<"2", "6", "/", "0", "8", "/", "2", "0", "2", "5">>)} }

\* elements a numbers list is made of: an int, a numeral in blanks, a word
ListElems == {PyInt(7), PyStr(<<" ", "1", "2", " ">>), PyStr(<<"x">>)}

OddElems ==
    { PyNone, PyFloat(37, 1), PyBool(TRUE), PyNaN, PyInf, PyStr(<<"-", "3">>),
      PyStr(<<"4", ".", "0">>), PyList(<<>>), PyDict(<<>>) }

NumberFields ==
    {PyList(l) : l \in SeqsUpTo(ListElems, MaxItems)}
        \cup {PyList(<<e, PyInt(7), PyInt(8)>>) : e \in OddElems}
        \cup {PyStr(x) : x \in {<<"0", "1", " ", "0", "2", " ", "0", "3", " ", "0", "4", " ", "0", "5">>, <<"1", ",", "2", ",", "3", ",", "4", ",", "5", ",", "6", ",", "7">>, <<"1", "2", "3", "4", "5", "6", "7", "8", "9", "0", "1", "2", "3">>, <<"7", "-", "x", "-", "8">>, <<"n", "o", " ", "d", "i", "g", "i", "t", "s">>, <<>>}}
        \cup {PyNone, PyInt(12345)}

NumberRecords ==
    { PyDict(<<<<"date", PyStr(<<"2", "0", "2", "5", "-", "0", "8", "-", "2", "6">>)>>, <<"numbers", f>>, <<"stars", f>>>>) :
        f \in NumberFields }
    \cup
    { PyDict(<<<<"numbers", PyList(<<>>)>>, <<"numbers_main", f>>, <<"lucky_stars", f>>>>) :
        f \in {PyList(l) : l \in SeqsUpTo(ListElems, 2)} \cup {PyStr(<<"0", "1", " ", "0", "2", " ", "0", "3", " ", "0", "4", " ", "0", "5">>)} }

\* prize tiers
Tier(mn, ms, key, prize) ==
    PyDict(<<<<"matched_numbers", mn>>, <<"matched_stars", ms>>, <<key, prize>>,
             <<"winners", PyInt(0)>>>>)

PrizeVals ==
    { PyFloat(268006243, 1), PyStr(<<"€", "1", "0", ",", "0", "0", "0", ",", "0", "0", "0">>), PyInt(0), PyStr(<<"T", "B", "C">>), PyInt(250000) }

Tiers ==
    {Tier(mn, ms, "prize", p) : mn \in {PyInt(5), PyInt(4)}, ms \in {PyInt(2), PyInt(1)},
                                p \in PrizeVals}
        \cup { Tier(PyStr(<<"5">>), PyStr(<<"2", ".", "0">>), "amount", PyInt(190000000)),
               Tier(PyInt(5), PyInt(2), "amount", PyFloat(0, 0)),
               Tier(PyInt(5), PyInt(2), "jackpot", PyInt(0)),
               PyDict(<<<<"matched_stars", PyInt(2)>>, <<"prize", PyInt(777)>>>>) }

TierRecords ==
    {PyDict(<<<<"date", PyStr(<<"2", "0", "2", "5", "-", "0", "8", "-", "2", "6">>)>>, <<"prizes", PyList(l)>>>>) :
        l \in SeqsUpTo(Tiers, MaxTiers)}
    \cup
    {PyDict(<<<<"jackpot", PyStr(<<"T", "B", "C">>)>>,
              <<"data", PyDict(<<<<"breakdown", PyList(<<t>>)>>>>)>>>>) : t \in Tiers}
    \cup
    {PyDict(<<<<k, v>>, <<"prizes", PyList(<<t>>)>>>>) :
        k \in {"jackpot", "prize", "jackpot_eur"},
        v \in {PyInt(17000000), PyInt(0), PyStr(<<"€", "1", "0", ",", "0", "0", "0", ",", "0", "0", "0">>), PyNone},
        t \in {Tier(PyInt(5), PyInt(2), "prize", PyInt(250000))}}

\* the dates of the draws handed to sort_desc_by_date
SortDates ==
    { PyStr(<<"2", "0", "2", "5", "-", "0", "8", "-", "2", "6">>), PyStr(<<"2", "0", "2", "5", "-", "0", "8", "-", "1", "9">>), PyStr(<<"2", "0", "2", "4", "-", "1", "2", "-", "3", "1">>), PyStr(<<"2", "6", "/", "0", "8", "/", "2", "0", "2", "5">>), PyStr(<<>>),
      PyStr(<<"2", "0", "2", "5", "-", "1", "3", "-", "4", "5">>), PyStr(<<"0", "0", "0", "0", "-", "0", "0", "-", "0", "0">>) }

\* normalized draws, the i-th with id i
DrawLists ==
    { [i \in 1..Len(ds) |-> normalize_draw(DateRecord("date", ds[i], PyInt(i)))] :
        ds \in SeqsUpTo(SortDates, MaxDraws) }

\* pieces of markup
Banners ==
    { <<"€", "4", "0", " ", "M", "i", "l", "l", "i", "o", "n", " ", "J", "a", "c", "k", "p", "o", "t", " ", "*">>,
      <<"€", "4", "0", ".", "5", " ", "M", "i", "l", "l", "i", "o", "n", " ", "J", "a", "c", "k", "p", "o", "t">>,
      <<"€", "5", " ", "K", " ", "J", "a", "c", "k", "p", "o", "t">>,
      <<"€", "4", "0", ",", "0", "0", "0", ",", "0", "0", "0", " ", "J", "a", "c", "k", "p", "o", "t">>,
      <<"€", "9", "9", "9", ",", "9", "9", "9", " ", "J", "a", "c", "k", "p", "o", "t">>,
      <<"J", "a", "c", "k", "p", "o", "t", " ", "€", "1", "7", ",", "0", "0", "0", ",", "0", "0", "0">>,
      <<"J", "a", "c", "k", "p", "o", "t", " ", "€", "5">>,
      <<"€", "1", ".", "2", ".", "3", " ", "J", "a", "c", "k", "p", "o", "t">>,
      <<"€", "1", "7", "M", " ", "j", "a", "c", "k", "p", "o", "t">>,
      <<"€", " ", "2", " ", "B", "i", "l", "l", "i", "o", "n", "\n", " ", "J", "a", "c", "k", "p", "o", "t", "*">>,
      <<"n", "o", " ", "b", "a", "n", "n", "e", "r", " ", "h", "e", "r", "e">>,
      <<"€", "0", ".", "9", "9", "9", "9", "9", "9", "5", " ", "m", "i", "l", "l", "i", "o", "n", " ", "J", "A", "C", "K", "P", "O", "T">> }

Markups ==
    Banners \cup {a \o <<" ", "\n", "<", "p", ">", " ">> \o b : a \in Banners, b \in Banners} \cup {<<>>}

-----------------------------------------------------------------------------
(* The functions called on their own *)

Idle ==
    /\ api = PyNone
    /\ page = [html |-> <<>>, draw |-> Unset]
    /\ skip_scrape = FALSE
    /\ retries = 0
    /\ backoff_sec = 0
    /\ attempt = 0
    /\ requests = <<>>
    /\ slept = <<>>
    /\ api_raw = Unset
    /\ history = <<>>
    /\ scraped = <<PyNone, PyNone>>
    /\ out = <<>>

InitFn ==
    /\ Idle
    /\ ret = Unset
    /\ \/ /\ pc = "call:normalize_draw"
          /\ basic_iso \in BOOLEAN
          /\ arg \in DateRecords \cup NumberRecords
       \/ /\ pc = "call:extract_jackpot_eur"
          /\ basic_iso = TRUE
          /\ arg \in TierRecords
       \/ /\ pc = "call:sort_desc_by_date"
          /\ basic_iso = TRUE
          /\ arg \in DrawLists
       \/ /\ pc = "call:parse_current_jackpot_from_html"
          /\ basic_iso = TRUE
          /\ arg \in Markups

Returns(fn, value) ==
    /\ pc = "call:" \o fn
    /\ pc' = "ret:" \o fn
    /\ ret' = value
    /\ UNCHANGED <<api, page, skip_scrape, basic_iso, retries, backoff_sec, attempt,
                   requests, slept, api_raw, history, scraped, out, arg>>

CallNormalizeDraw == Returns("normalize_draw", normalize_draw(arg))

CallExtractJackpot == Returns("extract_jackpot_eur", extract_jackpot_eur(arg))

CallSort == Returns("sort_desc_by_date", sort_desc_by_date(arg))

CallParseBanner ==
    Returns("parse_current_jackpot_from_html", parse_current_jackpot_from_html(arg))

NextFn == CallNormalizeDraw \/ CallExtractJackpot \/ CallSort \/ CallParseBanner

SpecFn == InitFn /\ [][NextFn]_vars

-----------------------------------------------------------------------------
(* A fetcher called on its own *)

InitFetch ==
    /\ pc \in {"fetch_json", "fetch_text"}
    /\ api = PyList(<<>>)
    /\ page = [html |-> <<"€", "4", "0", " ", "M", "i", "l", "l", "i", "o", "n", " ", "J", "a", "c", "k", "p", "o", "t", " ", "*">>, draw |-> Unset]
    /\ skip_scrape = FALSE
    /\ basic_iso = TRUE
    /\ retries \in 0..MaxRetries
    /\ backoff_sec \in 1..MaxBackoff
    /\ attempt = 0
    /\ requests = <<>>
    /\ slept = <<>>
    /\ api_raw = Unset
    /\ history = <<>>
    /\ scraped = <<PyNone, PyNone>>
    /\ out = <<>>
    /\ arg = Unset
    /\ ret = Unset

NextFetch == Request \/ Exhausted

\* a call that has neither returned nor raised goes on
SpecFetch == InitFetch /\ [][NextFetch]_vars /\ WF_vars(NextFetch)

-----------------------------------------------------------------------------
(* A run of main *)

GoodDraw ==
    PyDict(<<<<"id", PyInt(1)>>, <<"date", PyStr(<<"2", "0", "2", "5", "-", "0", "8", "-", "2", "6">>)>>, <<"numbers", SomeNumbers>>,
             <<"stars", SomeStars>>, <<"prize", PyInt(40000000)>>>>)

EarlierDraw ==
    PyDict(<<<<"draw_id", PyInt(2)>>, <<"draw_date", PyStr(<<"2", "0", "2", "5", "-", "0", "8", "-", "1", "9", "T", "2", "0", ":", "0", "0", ":", "0", "0", "Z">>)>>,
             <<"numbers", PyStr(<<"0", "1", " ", "0", "2", " ", "0", "3", " ", "0", "4", " ", "0", "5">>)>>, <<"stars", PyList(<<PyInt(6), PyInt(7)>>)>>,
             <<"prizes", PyList(<<Tier(PyInt(5), PyInt(2), "prize", PyStr(<<"€", "1", "0", ",", "0", "0", "0", ",", "0", "0", "0">>))>>)>>>>)

\* a record whose date, numbers and stars cannot be resolved
PoorDraw ==
    PyDict(<<<<"date", PyStr(<<>>)>>, <<"numbers", PyList(<<PyStr(<<"x">>)>>)>>>>)

\* a record whose jackpot is the JSON literal NaN
NanDraw ==
    PyDict(<<<<"date", PyStr(<<"2", "0", "2", "5", "-", "0", "8", "-", "1", "9">>)>>, <<"numbers", SomeNumbers>>,
             <<"stars", SomeStars>>, <<"jackpot", PyNaN>>>>)

\* what a payload list may hold: records, and null
PayloadItems == {GoodDraw, EarlierDraw, PoorDraw, NanDraw, PyNone}

Payloads ==
    {PyList(l) : l \in SeqsUpTo(PayloadItems, MaxRecords)}
        \cup {PyNone, PyDict(<<<<"error", PyStr(<<"T", "B", "C">>)>>>>), PyStr(<<"T", "B", "C">>)}

\* the draw a page shows, which nothing reads
PageDraws ==
    { [date |-> <<"2", "0", "2", "5", "-", "0", "8", "-", "2", "6">>, numbers |-> <<3, 17, 22, 29, 44>>, stars |-> <<6, 9>>],
      [date |-> <<"2", "0", "2", "5", "-", "0", "8", "-", "2", "6">>, numbers |-> <<3, 17, 22, 29, 45>>, stars |-> <<6, 9>>] }

Pages ==
    [html : {<<"€", "4", "0", " ", "M", "i", "l", "l", "i", "o", "n", " ", "J", "a", "c", "k", "p", "o", "t", " ", "*">>, <<"€", "5", " ", "K", " ", "J", "a", "c", "k", "p", "o", "t">> \o <<" ", "\n", "<", "p", ">", " ">> \o <<"J", "a", "c", "k", "p", "o", "t", " ", "€", "1", "7", ",", "0", "0", "0", ",", "0", "0", "0">>, <<"€", "9", "9", "9", ",", "9", "9", "9", " ", "J", "a", "c", "k", "p", "o", "t">>, <<"n", "o", " ", "b", "a", "n", "n", "e", "r", " ", "h", "e", "r", "e">>}, draw : PageDraws]

\* main calls fetch_json_with_retry(args.api, retries=3, backoff_sec=2.0)
Init ==
    /\ pc = "main:fetch_json"
    /\ api \in Payloads
    /\ page \in Pages
    /\ skip_scrape \in BOOLEAN
    /\ basic_iso = TRUE
    /\ retries = 3
    /\ backoff_sec = 2
    /\ attempt = 0
    /\ requests = <<>>
    /\ slept = <<>>
    /\ api_raw = Unset
    /\ history = <<>>
    /\ scraped = <<PyNone, PyNone>>
    /\ out = <<>>
    /\ arg = Unset
    /\ ret = Unset

Next ==
    \/ Request
    \/ Exhausted
    \/ CheckPayload
    \/ Normalize
    \/ StartScrape
    \/ WriteEuromillions
    \/ WriteLatest
    \/ RenderHtml

Spec == Init /\ [][Next]_vars

-----------------------------------------------------------------------------
(* Properties of sort_desc_by_date *)

\* s has the shape YYYY-MM-DD and nothing after it
IsIsoDate(s) == HasDatePrefix(s) /\ Len(s) = 10

\* s is a calendar date written YYYY-MM-DD
IsCalendarDate(s) ==
    /\ IsIsoDate(s)
    /\ IsDate(NatOf(SubSeq(s, 1, 4)), NatOf(SubSeq(s, 6, 7)), NatOf(SubSeq(s, 9, 10)))

\* date a is earlier than date b, both written YYYY-MM-DD: they differ first
\* in a digit that is smaller in a
Earlier(a, b) ==
    \E i \in 1..10 :
        /\ \A k \in 1..(i - 1) : a[k] = b[k]
        /\ a[i] # b[i]
        /\ DigitVal(a[i]) < DigitVal(b[i])

\* C1: sort_desc_by_date returns a permutation of its input (the draws carry
\* their input position as id), no draw dated YYYY-MM-DD comes before a draw
\* of a later date, draws of equal date keep their input order, a draw whose
\* date is not of that shape comes before no draw of a calendar date, and the
\* head is dated no earlier than any draw of a calendar date.
C1_SortedStablePermutation ==
    pc = "ret:sort_desc_by_date" =>
        /\ Len(ret) = Len(arg)
        /\ \A i \in 1..Len(arg) : \E j \in 1..Len(ret) : ret[j] = arg[i]
        /\ \A i, j \in 1..Len(ret) :
            i < j =>
                /\ IsIsoDate(ret[i].date) /\ IsIsoDate(ret[j].date)
                        => ~Earlier(ret[i].date, ret[j].date)
                /\ ret[i].date = ret[j].date => ret[i].id.n < ret[j].id.n
                /\ ~IsIsoDate(ret[i].date) => ~IsCalendarDate(ret[j].date)
        /\ \A j \in 1..Len(ret) :
            IsCalendarDate(ret[j].date) =>
                IsIsoDate(ret[1].date) /\ ~Earlier(ret[1].date, ret[j].date)

\* three draws, the first and the last of one date and the second of a later
\* one, have been sorted
C1_Witness ==
    /\ pc = "ret:sort_desc_by_date"
    /\ Len(arg) = 3
    /\ IsCalendarDate(arg[1].date) /\ IsCalendarDate(arg[2].date)
    /\ arg[1].date = arg[3].date
    /\ Earlier(arg[1].date, arg[2].date)
    /\ ret = <<arg[2], arg[1], arg[3]>>

-----------------------------------------------------------------------------
(* Properties of the tier search *)

\* the prize of a tier as the amount parser reads it: the value under the
\* prize-like key the tier has
ParsedPrize(t) ==
    _parse_euro_to_int(
        IF HasKey(t, "prize") THEN Get(t, "prize")
        ELSE IF HasKey(t, "amount") THEN Get(t, "amount")
        ELSE Get(t, "jackpot"))

\* the prizes that parse, among the tiers ts
ParsedPrizes(ts) ==
    {ParsedPrize(ts[i]).n : i \in {k \in 1..Len(ts) : ~IsNone(ParsedPrize(ts[k]))}}

\* C2: when no top-level key yields an amount, the result is the parsed prize
\* of a 5+2 tier whenever a 5+2 tier has one, and when no tier is 5+2 it is
\* the highest parsed prize of all tiers (None when there is none).
C2_TopTierPreferred ==
    (/\ pc = "ret:extract_jackpot_eur"
     /\ IsNone(TopLevelJackpot(arg, <<"jackpot", "prize", "jackpot_eur">>)))
    => LET ts == recurse(arg)
           top == {i \in 1..Len(ts) : IsTopTier(ts[i])}
       IN  /\ (\E i \in top : ~IsNone(ParsedPrize(ts[i])))
                => \E i \in top : ret = ParsedPrize(ts[i])
           /\ top = {} =>
                IF ParsedPrizes(ts) = {} THEN ret = PyNone
                ELSE /\ ret.t = "int"
                     /\ ret.n \in ParsedPrizes(ts)
                     /\ \A n \in ParsedPrizes(ts) : n <= ret.n

-----------------------------------------------------------------------------
(* Properties of normalize_draw *)

\* C7: the date of a normalized Draw is "unknown" or a calendar date written
\* YYYY-MM-DD.
C7_DateUnknownOrCalendar ==
    (pc = "ret:normalize_draw" /\ ret.t = "draw")
        => ret.date = Unknown \/ IsCalendarDate(ret.date)

\* the first index of the run of digits that holds index i
RunStart(s, i) ==
    CHOOSE p \in 1..i :
        /\ \A k \in p..i : IsDigit(s[k])
        /\ p = 1 \/ ~IsDigit(s[p - 1])

\* the k-th smallest element of the set of numbers I
Nth(I, k) == CHOOSE i \in I : Cardinality({j \in I : j <= i}) = k

\* the integers a numbers or stars field resolves to, in their order: of a
\* list, the elements int() accepts; of a text, its runs of digits cut in
\* pairs from the left
Resolved(f) ==
    CASE f.t = "list" ->
            LET kept == {i \in 1..Len(f.items) : ~IsNone(int(f.items[i]))}
            IN  [k \in 1..Cardinality(kept) |-> int(f.items[Nth(kept, k)]).n]
      [] f.t = "str" ->
            LET starts == {i \in 1..Len(f.s) :
                            IsDigit(f.s[i]) /\ (i - RunStart(f.s, i)) % 2 = 0}
                val(i) == IF i < Len(f.s) /\ IsDigit(f.s[i + 1])
                          THEN 10 * DigitVal(f.s[i]) + DigitVal(f.s[i + 1])
                          ELSE DigitVal(f.s[i])
            IN  [k \in 1..Cardinality(starts) |-> val(Nth(starts, k))]
      [] OTHER -> <<>>

\* the first n (at most) entries of r
FirstN(r, n) == [k \in 1..(IF Len(r) < n THEN Len(r) ELSE n) |-> r[k]]

\* C8: the numbers of a normalized Draw are the first 5 (at most) integers its
\* numbers field resolves to, in order, and its stars the first 2 (at most)
\* of its stars field; never more than 5 numbers or 2 stars.
C8_FirstFiveFirstTwo ==
    (pc = "ret:normalize_draw" /\ ret.t = "draw")
        => /\ ret.numbers =
                FirstN(Resolved(Or2(Get(arg, "numbers"), Get(arg, "numbers_main"))), 5)
           /\ ret.stars =
                FirstN(Resolved(Or2(Get(arg, "stars"), Get(arg, "lucky_stars"))), 2)
           /\ Len(ret.numbers) <= 5
           /\ Len(ret.stars) <= 2

\* a list of more than five elements, one of them dropped, has been cut
C8_Witness ==
    /\ pc = "ret:normalize_draw"
    /\ ret.t = "draw"
    /\ Get(arg, "numbers").t = "list"
    /\ Len(Get(arg, "numbers").items) = 6
    /\ Get(arg, "numbers").items[2] = PyStr(<<"x">>)
    /\ Len(ret.numbers) = 5
    /\ Len(ret.stars) = 2

-----------------------------------------------------------------------------
(* Properties of parse_current_jackpot_from_html *)

\* the amount pattern pat finds in the markup html_text; -1 when it matches
\* nothing or its number is no float
Candidate(pat, html_text) ==
    LET m == Search(pat, CollapseWs(html_text))
    IN  IF m.ok /\ IsFloatText(m.num)
        THEN Euros(m.num, _multiplier_for_unit(m.unit))
        ELSE 0 - 1

\* C9: the result is (None, None) or an amount of at least one million with
\* the non-empty text matched, and it is the amount of the first pattern whose
\* candidate reaches one million, whatever the earlier patterns matched.
C9_FloorAndFallThrough ==
    pc = "ret:parse_current_jackpot_from_html" =>
        /\ \/ ret = <<PyNone, PyNone>>
           \/ /\ ret[1].t = "int" /\ ret[1].n >= 1000000
              /\ ret[2].t = "str" /\ ret[2].s # <<>>
        /\ \A p \in 1..3 :
            (/\ Candidate(p, arg) >= 1000000
             /\ \A q \in 1..(p - 1) : Candidate(q, arg) < 1000000)
                => ret[1] = PyInt(Candidate(p, arg))
        /\ (\A p \in 1..3 : Candidate(p, arg) < 1000000) => ret = <<PyNone, PyNone>>

\* the first pattern matched an amount under the floor and the third one's
\* amount was returned
C9_Witness ==
    /\ pc = "ret:parse_current_jackpot_from_html"
    /\ Candidate(1, arg) >= 0 /\ Candidate(1, arg) < 1000000
    /\ Candidate(2, arg) < 1000000
    /\ ret[1] = PyInt(Candidate(3, arg))
    /\ ret[1].n >= 1000000

-----------------------------------------------------------------------------
(* Properties of the fetchers *)

\* the number of requests that failed
Failures == Cardinality({i \in 1..Len(requests) : ~requests[i][2]})

C10_Inv ==
    retries >= 1 =>
        /\ attempt <= retries
        /\ Len(requests) = attempt
        /\ \A i \in 1..(Len(requests) - 1) : ~requests[i][2]
        /\ pc = "returned" <=> (requests # <<>> /\ requests[Len(requests)][2])
        /\ pc = "returned" =>
            ret = IF requests[1][1] = "api" THEN api ELSE PyStr(page.html)
        /\ pc = "raised" =>
            /\ Len(requests) = retries
            /\ Failures = retries
            /\ ret = Raise("RuntimeError")
        /\ slept = [i \in 1..(IF Failures < retries THEN Failures ELSE retries - 1)
                        |-> backoff_sec * i]

\* C10: with retries >= 1 a fetcher makes at most retries requests, returns at
\* the first that succeeds and makes none after it, raises only after retries
\* failures in a row, sleeps backoff_sec * attempt after every failure but the
\* last, and always ends.
C10_BoundedRetry == []C10_Inv /\ <>(pc \in {"returned", "raised"})

\* a fetcher with retries = 3 has raised after sleeping twice
C10_Witness ==
    /\ pc = "raised"
    /\ retries = 3
    /\ Failures = 3
    /\ Len(slept) = 2

-----------------------------------------------------------------------------
(* Properties of a run of main *)

\* the requests made to the jackpot page
PageRequests == {i \in 1..Len(requests) : requests[i][1] = "page"}

\* the files written so far
Written == {out[i].file : i \in 1..Len(out)}

\* C3: no record of a non-empty payload list makes normalization raise: once
\* the records are normalized the run goes on with one history entry each.
C3_EveryRecordNormalized ==
    (IsNonEmptyList(api_raw) /\ pc \notin {"main:check", "main:normalize"})
        => pc # "main:aborted" /\ Len(history) = Len(api_raw.items)

\* C4: a payload that is empty or no list aborts the run with RuntimeError
\* before anything is normalized, requested from the page or written.
C4_BadPayloadAborts ==
    (api_raw # Unset /\ (api_raw.t # "list" \/ api_raw.items = <<>>))
        => /\ pc \in {"main:check", "main:aborted"}
           /\ pc = "main:aborted" => ret = Raise("RuntimeError")
           /\ history = <<>>
           /\ PageRequests = {}
           /\ out = <<>>

\* the run of an empty payload list has been aborted
C4_Witness ==
    /\ pc = "main:aborted"
    /\ api_raw = PyList(<<>>)
    /\ \E i \in 1..Len(requests) : requests[i] = <<"api", TRUE>>

\* every request to the page failed
TransportFailed ==
    Cardinality(PageRequests) = 3 /\ \A i \in PageRequests : ~requests[i][2]

\* the page was fetched and no pattern found an acceptable amount in it
NoAcceptableMatch ==
    /\ \E i \in PageRequests : requests[i][2]
    /\ \A p \in 1..3 : Candidate(p, page.html) < 1000000

\* C5: a scrape that failed (every request failed, or no acceptable match)
\* never aborts the run: the scraped jackpot is unknown, the source written is
\* "api", the run can go on until it is done, and then all three files are
\* written; and the source written is "lottery.ie" exactly when an amount was
\* scraped from a page that was fetched.
C5_ScrapeFailureDegrades ==
    /\ (TransportFailed \/ NoAcceptableMatch) =>
        /\ pc # "main:aborted"
        /\ scraped = <<PyNone, PyNone>>
        /\ \A i \in 1..Len(out) :
            out[i].file = "euromillions.json" =>
                out[i].currentJackpotSource = "api" /\ out[i].currentJackpotText = Unset
        /\ pc # "main:done" => ENABLED Next
        /\ pc = "main:done" => Written = {"euromillions.json", "latest.json", "index.html"}
    /\ \A i \in 1..Len(out) :
        out[i].file = "euromillions.json" =>
            (out[i].currentJackpotSource = "lottery.ie"
                <=> (/\ \E k \in PageRequests : requests[k][2]
                     /\ \E p \in 1..3 : Candidate(p, page.html) >= 1000000))

\* a run whose three requests to the page failed is done
C5_Witness ==
    /\ pc = "main:done"
    /\ TransportFailed
    /\ Len(out) = 3

\* C6: latest.json says verified only if the draw the page shows and the
\* API-latest draw agree on date, numbers and stars.
C6_VerifiedMeansAgreement ==
    \A i \in 1..Len(out) :
        (out[i].file = "latest.json" /\ out[i].verified)
            => /\ page.draw.date = history[1].date
               /\ page.draw.numbers = history[1].numbers
               /\ page.draw.stars = history[1].stars

=============================================================================
